---- MODULE Spec2Model ----
(***************************************************************************)
(* Multicopter position controller (mc_pos_control_main.cpp): the periodic *)
(* control loop, the flight-task selector, smooth takeoff, the altitude    *)
(* fence and the landing thrust shaper.                                    *)
(*                                                                         *)
(* Numbers: lengths are in centimetres, speeds in cm/s, thrust in          *)
(* hundredths, times in microseconds (the parameter for the takeoff ramp   *)
(* time is in milliseconds).  A float that is NaN is the value NaN below;  *)
(* every comparison with NaN is false and arithmetic on NaN gives NaN, as  *)
(* in IEEE-754.                                                            *)
(***************************************************************************)
EXTENDS Integers, Sequences, FiniteSets, TLC

VARIABLES
    now,                    \* hrt_absolute_time() at the last loop iteration
    t_prev,                 \* task_main local t_prev
    _dt,                    \* SuperBlock dt set by setDt (microseconds)
    params,                 \* cached parameters (DEFINE_PARAMETERS)
    _control_mode,          \* vehicle_control_mode_s copy
    _vehicle_status,        \* vehicle_status_s copy
    _vehicle_land_detected, \* vehicle_land_detected_s copy
    _local_pos,             \* vehicle_local_position_s copy
    _home_pos,              \* home_position_s copy
    _attitude_setpoint_id,  \* orb id of the attitude setpoint topic
    _att_sp_pub,            \* TRUE once the attitude setpoint is advertised
    _states,                \* PositionControlStates
    _arm_hysteresis,        \* systemlib::Hysteresis
    _in_smooth_takeoff,
    _takeoff_speed,
    _flight_tasks,          \* index of the active flight task
    _last_warn,
    _att_sp,                \* vehicle_attitude_setpoint_s
    _local_pos_sp,          \* vehicle_local_position_setpoint_s
    obs,                    \* what the last loop iteration did (locals, calls, publications)
    hist,                   \* history of the arming / landed observations
    cmd,                    \* pos_control::g_control, the control task and the command in progress
    ms5525_airspeed         \* ms5525_airspeed::g_dev and the last command of the driver

vars == << now, t_prev, _dt, params, _control_mode, _vehicle_status,
           _vehicle_land_detected, _local_pos, _home_pos, _attitude_setpoint_id,
           _att_sp_pub, _states, _arm_hysteresis, _in_smooth_takeoff,
           _takeoff_speed, _flight_tasks, _last_warn, _att_sp, _local_pos_sp,
           obs, hist, cmd, ms5525_airspeed >>

----------------------------------------------------------------------------
(* Bounds of the model *)

\* the clock is not advanced past this value (microseconds)
MaxNow == 6300000

----------------------------------------------------------------------------
(* Floats *)

NaN == 0 - 1000000000

PX4_ISFINITE(x) == x # NaN

\* a < b on floats
FLt(a, b) == a # NaN /\ b # NaN /\ a < b

\* a > b on floats
FGt(a, b) == a # NaN /\ b # NaN /\ a > b

\* a <= b on floats
FLe(a, b) == a # NaN /\ b # NaN /\ a <= b

FNeg(a) == IF a = NaN THEN NaN ELSE 0 - a

FAdd(a, b) == IF a = NaN \/ b = NaN THEN NaN ELSE a + b

FSub(a, b) == IF a = NaN \/ b = NaN THEN NaN ELSE a - b

fabsf(a) == IF a = NaN THEN NaN ELSE IF a < 0 THEN 0 - a ELSE a

\* math::min(a, b) is (a < b) ? a : b
MathMin(a, b) == IF FLt(a, b) THEN a ELSE b

\* math::max(a, b) is (a > b) ? a : b
MathMax(a, b) == IF FGt(a, b) THEN a ELSE b

----------------------------------------------------------------------------
(* systemlib::Hysteresis: only the false -> true transition has a dwell *)

IDLE_BOFORE_TAKEOFF_TIME_US == 2500000

HysteresisTimeFrom(state) == IF state THEN 0 ELSE IDLE_BOFORE_TAKEOFF_TIME_US

\* Hysteresis::update at time t
HysteresisUpdate(h, t) ==
    IF h.requested_state # h.state
       /\ t - h.last_time_to_change_state >= HysteresisTimeFrom(h.state)
    THEN [h EXCEPT !.state = h.requested_state]
    ELSE h

\* Hysteresis::set_state_and_update(new_state) at time t
set_state_and_update(h, new_state, t) ==
    HysteresisUpdate(
        IF new_state # h.state
        THEN IF new_state # h.requested_state
             THEN [h EXCEPT !.requested_state = new_state,
                            !.last_time_to_change_state = t]
             ELSE h
        ELSE [h EXCEPT !.requested_state = h.state],
        t)

----------------------------------------------------------------------------
(* Values of the enumerations *)

NavStates == {"MANUAL", "ALTCTL", "POSCTL", "AUTO_MISSION", "OFFBOARD", "STAB",
              "AUTO_FOLLOW_TARGET", "ACRO"}

FlightTaskIndex == {"None", "Stabilized", "Altitude", "Position", "PositionSmooth",
                    "Sport", "AutoLine", "AutoFollowMe", "Offboard"}

\* landing gear command of the constraints
GearValues == {"GEAR_NONE", "GEAR_UP", "GEAR_DOWN", "GEAR_KEEP"}

NoThrust == << NaN, NaN, NaN >>

\* a setpoint with every field NaN
NanSetpoint == [x |-> NaN, y |-> NaN, z |-> NaN, vx |-> NaN, vy |-> NaN, vz |-> NaN,
                thrust |-> NoThrust, yaw |-> NaN, yawspeed |-> NaN]

NoConstraints == [speed_up |-> NaN, min_distance_to_ground |-> NaN,
                  landing_gear |-> "GEAR_NONE"]

----------------------------------------------------------------------------
(* parameters_update: reload and enforce the constraints *)

parameters_update(p) ==
    [p EXCEPT !._tko_speed = MathMin(p._tko_speed, p._vel_max_up),
              !._land_speed = MathMin(p._land_speed, p._vel_max_down)]

----------------------------------------------------------------------------
(* warn_rate_limited: w is [last_warn, log]; one message per 200 ms *)

warn_rate_limited(w, str, t) ==
    IF t - w.last_warn > 200000
    THEN [last_warn |-> t, log |-> Append(w.log, str)]
    ELSE w

\* PX4_WARN in the selector: not rate limited
PX4_WARN(w, str) == [w EXCEPT !.log = Append(w.log, str)]

----------------------------------------------------------------------------
(* FlightTasks::switchTask: fail is the set of tasks whose activation fails *)

switchTaskError(index, fail) == IF index # "None" /\ index \in fail THEN 1 ELSE 0

switchTask(s, index, fail) ==
    [s EXCEPT !.task = IF switchTaskError(index, fail) = 0 THEN index ELSE "None",
              !.calls = Append(s.calls, index)]

----------------------------------------------------------------------------
(* start_flight_task: s is [task, calls, w, task_failure] *)

\* one activation attempt of the cascade
TrySwitch(s, cond, index, fail, msg, clears) ==
    IF ~cond THEN s
    ELSE LET s1 == switchTask(s, index, fail) IN
         IF switchTaskError(index, fail) # 0
         THEN [s1 EXCEPT !.w = PX4_WARN(s1.w, msg), !.task_failure = TRUE]
         ELSE IF clears THEN [s1 EXCEPT !.task_failure = FALSE] ELSE s1

\* a selector that ignores MPC_POS_MODE
ManualPositionTask_AlwaysPosition(pos_mode) == "Position"

\* switch (MPC_POS_MODE.get())
ManualPositionTask(pos_mode) ==
    CASE pos_mode = 0 -> "Position"
      [] pos_mode = 1 -> "PositionSmooth"
      [] pos_mode = 2 -> "Sport"
      [] OTHER -> "Position"

start_flight_task(task, w, nav_state, auto_enabled, pos_mode, fail, t) ==
    LET s0 == [task |-> task, calls |-> << >>, w |-> w, task_failure |-> FALSE]
        s1 == TrySwitch(s0, nav_state = "OFFBOARD", "Offboard", fail,
                        "Offboard activation failded", FALSE)
        s2 == IF nav_state = "AUTO_FOLLOW_TARGET"
              THEN TrySwitch(s1, TRUE, "AutoFollowMe", fail,
                             "Follow-Me activation failed", FALSE)
              ELSE TrySwitch(s1, auto_enabled, "AutoLine", fail,
                             "Auto activation failed", FALSE)
        s3 == TrySwitch(s2, nav_state = "POSCTL" \/ s2.task_failure,
                        ManualPositionTask(pos_mode), fail,
                        "Position-Ctrl activation failed", TRUE)
        s4 == TrySwitch(s3, nav_state = "ALTCTL" \/ s3.task_failure, "Altitude", fail,
                        "Altitude-Ctrl activation failed", TRUE)
        s5 == TrySwitch(s4, nav_state = "MANUAL" \/ nav_state = "STAB" \/ s4.task_failure,
                        "Stabilized", fail, "Stabilized-Ctrl failed", TRUE)
    IN  IF s5.task_failure
        THEN [switchTask(s5, "None", fail) EXCEPT
                 !.w = warn_rate_limited(s5.w, "No Flighttask is running", t)]
        ELSE s5

----------------------------------------------------------------------------
(* check_vehicle_states *)

check_vehicle_states(st, lp, vel_sp_z, land_speed) ==
    IF lp.timestamp = 0 THEN st
    ELSE
    LET xy_ok  == PX4_ISFINITE(lp.x) /\ PX4_ISFINITE(lp.y) /\ lp.xy_valid
        z_ok   == PX4_ISFINITE(lp.z) /\ lp.z_valid
        vxy_ok == PX4_ISFINITE(lp.vx) /\ PX4_ISFINITE(lp.vy) /\ lp.v_xy_valid
        \* weighting (in thousandths) of the blend of z_deriv and vz
        weighting == MathMin((fabsf(vel_sp_z) * 1000) \div land_speed, 1000)
        blended == IF PX4_ISFINITE(vel_sp_z) /\ FGt(fabsf(vel_sp_z), 0)
                      /\ PX4_ISFINITE(lp.z_deriv)
                   THEN (lp.z_deriv * weighting + lp.vz * (1000 - weighting)) \div 1000
                   ELSE st.velocity[3]
        \* the blended value is overwritten by the raw vz
        vz     == IF PX4_ISFINITE(lp.vz) THEN lp.vz ELSE NaN
    IN  [position |-> << IF xy_ok THEN lp.x ELSE NaN,
                         IF xy_ok THEN lp.y ELSE NaN,
                         IF z_ok THEN lp.z ELSE NaN >>,
         velocity |-> << IF vxy_ok THEN lp.vx ELSE NaN,
                         IF vxy_ok THEN lp.vy ELSE NaN,
                         vz >>,
         yaw      |-> IF PX4_ISFINITE(lp.yaw) THEN lp.yaw ELSE st.yaw]

----------------------------------------------------------------------------
(* limit_altitude *)

\* fabsf(v) * dt > d, with dt in microseconds
SpeedTimesDtGt(v, dt, d) ==
    v # NaN /\ d # NaN /\ fabsf(v) * dt > d * 1000000

AltitudeAboveHome(st, home) == FNeg(FSub(st.position[3], home.z))

ClampToCeiling(setpoint, land, home) ==
    [setpoint EXCEPT !.z = FAdd(FNeg(land.alt_max), home.z), !.vz = 0]

\* a fence that only reacts once the vehicle is above the ceiling
limit_altitude_NoLookahead(setpoint, land, home, lp, st, dt) ==
    IF land.alt_max < 0 \/ ~home.valid_alt \/ ~lp.v_z_valid THEN setpoint
    ELSE IF FGt(AltitudeAboveHome(st, home), land.alt_max)
         THEN ClampToCeiling(setpoint, land, home)
         ELSE setpoint

limit_altitude(setpoint, land, home, lp, st, dt) ==
    IF land.alt_max < 0 \/ ~home.valid_alt \/ ~lp.v_z_valid THEN setpoint
    ELSE IF FGt(AltitudeAboveHome(st, home), land.alt_max)
         THEN ClampToCeiling(setpoint, land, home)
         ELSE IF FLe(setpoint.vz, 0)
                 /\ SpeedTimesDtGt(setpoint.vz, dt,
                                   FSub(land.alt_max, AltitudeAboveHome(st, home)))
              THEN ClampToCeiling(setpoint, land, home)
              ELSE setpoint

----------------------------------------------------------------------------
(* Smooth takeoff: k is [in_smooth_takeoff, takeoff_speed, entered] *)

check_for_smooth_takeoff(k, land, st, z_sp, vz_sp, constraints, p) ==
    IF land.landed /\ ~k.in_smooth_takeoff
    THEN LET min_altitude == IF PX4_ISFINITE(constraints.min_distance_to_ground)
                             THEN constraints.min_distance_to_ground + 5
                             ELSE 20
         IN  IF (PX4_ISFINITE(z_sp) /\ FLt(z_sp, FSub(st.position[3], min_altitude)))
                \/ (PX4_ISFINITE(vz_sp)
                    /\ FLt(vz_sp, MathMin(FNeg(p._tko_speed), 0 - 60)))
             THEN [in_smooth_takeoff |-> TRUE, takeoff_speed |-> 0 - 50,
                   entered |-> TRUE]
             ELSE [k EXCEPT !.in_smooth_takeoff = FALSE]
    ELSE k

\* desired_tko_speed
DesiredTkoSpeed(z_sp, vz_sp, p) ==
    IF PX4_ISFINITE(z_sp) THEN p._tko_speed ELSE FNeg(vz_sp)

\* a ramp that advances by the same step whatever dt is
RampIncrement_Fixed(desired, dt, p) == IF desired = NaN THEN NaN ELSE 5

\* desired_tko_speed * _dt / _takeoff_ramp_time.get()
RampIncrement(desired, dt, p) ==
    IF desired = NaN THEN NaN ELSE (desired * dt) \div (p._takeoff_ramp_time * 1000)

\* a ramp that is not limited to the desired speed
RampedTakeoffSpeed_NoLimit(speed, desired, dt, p) ==
    FAdd(speed, RampIncrement(desired, dt, p))

\* the ramped _takeoff_speed
RampedTakeoffSpeed(speed, desired, dt, p) ==
    MathMin(FAdd(speed, RampIncrement(desired, dt, p)), desired)

\* a takeoff that ends where it should go on
TakeoffContinues_Inverted(speed, st, z_sp, vz_sp, p) ==
    IF PX4_ISFINITE(z_sp)
    THEN ~FGt(FSub(st.position[3], 20), MathMax(z_sp, FNeg(p.MPC_LAND_ALT2)))
    ELSE ~FLt(speed, FNeg(vz_sp))

\* the new value of _in_smooth_takeoff
TakeoffContinues(speed, st, z_sp, vz_sp, p) ==
    IF PX4_ISFINITE(z_sp)
    THEN FGt(FSub(st.position[3], 20), MathMax(z_sp, FNeg(p.MPC_LAND_ALT2)))
    ELSE FLt(speed, FNeg(vz_sp))

update_smooth_takeoff(k, st, z_sp, vz_sp, p, dt) ==
    IF k.in_smooth_takeoff
    THEN LET speed == RampedTakeoffSpeed(k.takeoff_speed,
                                         DesiredTkoSpeed(z_sp, vz_sp, p), dt, p)
         IN  [k EXCEPT
                !.takeoff_speed = speed,
                !.in_smooth_takeoff = TakeoffContinues(speed, st, z_sp, vz_sp, p)]
    ELSE [k EXCEPT !.in_smooth_takeoff = FALSE]

----------------------------------------------------------------------------
(* limit_thrust_during_landing: c is [thr_sp, reset_xy, reset_z] *)

\* a shaper that forgets the Z integral
limit_thrust_during_landing_NoResetZ(c, land) ==
    LET c1 == IF land.ground_contact
              THEN [c EXCEPT !.thr_sp = << 0, 0, c.thr_sp[3] >>, !.reset_xy = TRUE]
              ELSE c
    IN  IF land.maybe_landed
        THEN [c1 EXCEPT !.thr_sp = << 0, 0, 0 >>, !.reset_xy = TRUE]
        ELSE c1

\* a shaper that zeroes the whole thrust on ground contact
limit_thrust_during_landing_ZeroAllOnContact(c, land) ==
    IF land.ground_contact \/ land.maybe_landed
    THEN [c EXCEPT !.thr_sp = << 0, 0, 0 >>, !.reset_xy = TRUE,
                   !.reset_z = land.maybe_landed]
    ELSE c

limit_thrust_during_landing(c, land) ==
    LET c1 == IF land.ground_contact
              THEN [c EXCEPT !.thr_sp = << 0, 0, c.thr_sp[3] >>, !.reset_xy = TRUE]
              ELSE c
    IN  IF land.maybe_landed
        THEN [c1 EXCEPT !.thr_sp = << 0, 0, 0 >>, !.reset_xy = TRUE, !.reset_z = TRUE]
        ELSE c1

----------------------------------------------------------------------------
(* PositionControl and ControlMath: finite setpoint fields are tracked,     *)
(* NaN fields are free and filled by the controller (pid)                   *)

Tracked(sp_value, free_value) == IF PX4_ISFINITE(sp_value) THEN sp_value ELSE free_value

generateThrustYawSetpoint(setpoint, pid) ==
    [thr_sp   |-> << Tracked(setpoint.thrust[1], pid.thr[1]),
                     Tracked(setpoint.thrust[2], pid.thr[2]),
                     Tracked(setpoint.thrust[3], pid.thr[3]) >>,
     pos_sp   |-> << setpoint.x, setpoint.y, setpoint.z >>,
     vel_sp   |-> << setpoint.vx, setpoint.vy, setpoint.vz >>,
     yaw      |-> Tracked(setpoint.yaw, pid.yaw),
     yawspeed |-> Tracked(setpoint.yawspeed, pid.yawspeed)]

\* ControlMath::thrustToAttitude: level when there is no lateral thrust
thrustToAttitude(att, thr_sp, yaw_sp) ==
    [att EXCEPT !.tilted = (thr_sp[1] # 0 \/ thr_sp[2] # 0),
                !.yaw_body = yaw_sp,
                !.thrust_vec = thr_sp]

----------------------------------------------------------------------------
(* publish_attitude: r is [allowed, published, pub] *)

OffboardWithoutControl(mode) ==
    mode.flag_control_offboard_enabled
    /\ ~(mode.flag_control_position_enabled
         \/ mode.flag_control_velocity_enabled
         \/ mode.flag_control_acceleration_enabled)

\* a publication gate without the offboard exemption
PublishAllowed_NoExemption(h, mode) == h.state

PublishAllowed(h, mode) == h.state /\ ~OffboardWithoutControl(mode)

\* orb_publish when advertised, orb_advertise (which publishes) when the id is known
publish_attitude(h, mode, id, pub) ==
    [allowed   |-> PublishAllowed(h, mode),
     published |-> PublishAllowed(h, mode) /\ (pub \/ id # "null"),
     pub       |-> pub \/ (PublishAllowed(h, mode) /\ id # "null")]

----------------------------------------------------------------------------
(* poll_subscriptions: a topic is copied when it was updated *)

orb_copy(update, copy) == IF update # << >> THEN update[1] ELSE copy

AttitudeSetpointId(id, update) ==
    IF update # << >> /\ id = "null"
    THEN IF update[1].is_vtol THEN "mc_virtual_attitude_setpoint"
                              ELSE "vehicle_attitude_setpoint"
    ELSE id

----------------------------------------------------------------------------
(* task_main: the branch with an active flight task *)

\* setpoint after a failed update of the task; yaw and yawspeed are never assigned
FailsafeSetpoint(st, p, uninit) ==
    LET base == [NanSetpoint EXCEPT !.yaw = uninit.yaw, !.yawspeed = uninit.yawspeed]
    IN  IF PX4_ISFINITE(st.velocity[3])
        THEN [base EXCEPT !.vz = p._land_speed, !.thrust = << 0, 0, NaN >>]
        ELSE base

FailsafeWarning(st) ==
    IF PX4_ISFINITE(st.velocity[3]) THEN "Failsafe: Descend with land-speed."
                                    ELSE "Failsafe: Descend with just attitude control."

\* overrides of the setpoint during smooth takeoff
TakeoffSetpoint(setpoint) ==
    [setpoint EXCEPT !.yaw = NaN, !.yawspeed = NaN, !.x = NaN, !.y = NaN,
                     !.vx = 0, !.vy = 0]

\* "Keep throttle low" when landed
LandedIdleApplies(land, in_smooth, setpoint) ==
    land.landed /\ ~in_smooth /\ ~PX4_ISFINITE(setpoint.thrust[3])

LandedIdleSetpoint(setpoint, st) ==
    [setpoint EXCEPT !.thrust = << 0, 0, 0 >>, !.x = NaN, !.y = NaN, !.z = NaN,
                     !.vx = NaN, !.vy = NaN, !.vz = NaN, !.yawspeed = NaN,
                     !.yaw = st.yaw]

\* a shaper that runs on every iteration
LandingLimitRuns_Always(in_smooth, setpoint) == TRUE

\* the landing shaper runs only outside smooth takeoff and without a thrust setpoint
LandingLimitRuns(in_smooth, setpoint) ==
    ~in_smooth /\ ~PX4_ISFINITE(setpoint.thrust[3])

\* landing gear of the attitude setpoint from the constraints
LandingGear(att_gear, gear) ==
    IF gear = "GEAR_NONE"
    THEN IF gear = "GEAR_DOWN" THEN "LANDING_GEAR_DOWN"
         ELSE IF gear = "GEAR_UP" THEN "LANDING_GEAR_UP" ELSE att_gear
    ELSE att_gear

\* observations of an iteration without an active flight task
NoTaskObs ==
    [update_ok |-> TRUE, sp_task |-> NanSetpoint, takeoff_ok |-> FALSE,
     entered |-> FALSE, ramp_prev |-> NaN, in_takeoff_update |-> FALSE,
     desired |-> NaN, idle |-> FALSE, sp_pre_fence |-> NanSetpoint,
     setpoint |-> NanSetpoint, constraints |-> NoConstraints, thr_pid |-> NoThrust,
     limit_ran |-> FALSE, thr_sp |-> NoThrust, reset_xy |-> FALSE, reset_z |-> FALSE]

\* task_main: no flighttask is active, stay idle
IdleAttitude(att, lp) ==
    [att EXCEPT !.tilted = FALSE, !.yaw_body = lp.yaw, !.yaw_sp_move_rate = 0,
                !.thrust_vec = << 0, 0, 0 >>]

----------------------------------------------------------------------------
(* State after construction and the prologue of task_main *)

\* parameter values before the constraints are enforced
DefaultParams ==
    [_takeoff_ramp_time |-> 3000, _vel_max_up |-> 300, _vel_max_down |-> 100,
     _land_speed |-> 60, _tko_speed |-> 150, MPC_LAND_ALT2 |-> 500, MPC_POS_MODE |-> 0]

ZeroControlMode ==
    [flag_armed |-> FALSE, flag_control_auto_enabled |-> FALSE,
     flag_control_offboard_enabled |-> FALSE, flag_control_position_enabled |-> FALSE,
     flag_control_velocity_enabled |-> FALSE, flag_control_acceleration_enabled |-> FALSE]

ZeroVehicleStatus == [nav_state |-> "MANUAL", is_vtol |-> FALSE]

ZeroLandDetected ==
    [landed |-> FALSE, maybe_landed |-> FALSE, ground_contact |-> FALSE, alt_max |-> 0]

ZeroLocalPos ==
    [timestamp |-> 0, x |-> 0, y |-> 0, z |-> 0, vx |-> 0, vy |-> 0, vz |-> 0,
     z_deriv |-> 0, yaw |-> 0, xy_valid |-> FALSE, z_valid |-> FALSE,
     v_xy_valid |-> FALSE, v_z_valid |-> FALSE]

ZeroHomePos == [z |-> 0, valid_alt |-> FALSE]

\* no warning precedes the warning of the iteration
NoGap == 0 - 1

\* the smallest distance in time between two warnings, the last one of the earlier
\* iterations included; log holds the warnings of the iteration at time t
WarningGap(log, last_emit, t) ==
    IF Len(log) >= 2 THEN 0
    ELSE IF Len(log) = 1 /\ last_emit >= 0 THEN t - last_emit
    ELSE NoGap

\* the instance that mc_pos_control start leaves behind: task spawned and looping
RunningInstance ==
    [g_control |-> "instance", _control_task |-> 1, _task_should_exit |-> FALSE,
     thread |-> "running", pc |-> "idle", i |-> 0, instances |-> 1, id |-> 1,
     last |-> "start", ret |-> 0, had |-> FALSE, had_id |-> 0, commands |-> 1]

InitObs ==
    [kind |-> "init", armed |-> FALSE, active |-> FALSE, calls |-> << >>,
     warns |-> << >>, allowed |-> FALSE, published |-> FALSE, att_out |-> << >>,
     lpsp_published |-> FALSE, reentered |-> FALSE,
     fail |-> {}, warn_requested |-> FALSE, warn_gap |-> NoGap,
     before |-> [h |-> FALSE, task |-> "None", pub |-> FALSE, in_smooth |-> FALSE,
                 vz |-> 0, last_warn |-> 0, ramp |-> 0 - 100],
     o |-> NoTaskObs]

\* the members of a freshly constructed instance, after the prologue of task_main
NewInstance(raw_params) ==
    [t_prev |-> 0,
     _dt |-> 0,
     params |-> parameters_update(raw_params),
     _control_mode |-> ZeroControlMode,
     _vehicle_status |-> ZeroVehicleStatus,
     _vehicle_land_detected |-> ZeroLandDetected,
     _local_pos |-> ZeroLocalPos,
     _home_pos |-> ZeroHomePos,
     _attitude_setpoint_id |-> "null",
     _att_sp_pub |-> FALSE,
     _states |-> [position |-> << 0, 0, 0 >>, velocity |-> << 0, 0, 0 >>, yaw |-> 0],
     _arm_hysteresis |-> [state |-> FALSE, requested_state |-> FALSE,
                          last_time_to_change_state |-> 0],
     _in_smooth_takeoff |-> FALSE,
     _takeoff_speed |-> 0 - 100,
     _flight_tasks |-> "None",
     _last_warn |-> 0,
     _att_sp |-> [tilted |-> FALSE, yaw_body |-> 0, thrust_vec |-> << 0, 0, 0 >>,
                  yaw_sp_move_rate |-> 0, landing_gear |-> "LANDING_GEAR_DOWN"],
     _local_pos_sp |-> [timestamp |-> 0, pos |-> << 0, 0, 0 >>, vel |-> << 0, 0, 0 >>,
                        yaw |-> 0, yawspeed |-> 0, thrust |-> << 0, 0, 0 >>]]

InitHist == [armed_since |-> 0, landed_held |-> FALSE, last_emit |-> 0 - 1]

InitController(raw_params) ==
    /\ now = 0
    /\ t_prev = NewInstance(raw_params).t_prev
    /\ _dt = NewInstance(raw_params)._dt
    /\ params = NewInstance(raw_params).params
    /\ _control_mode = NewInstance(raw_params)._control_mode
    /\ _vehicle_status = NewInstance(raw_params)._vehicle_status
    /\ _vehicle_land_detected = NewInstance(raw_params)._vehicle_land_detected
    /\ _local_pos = NewInstance(raw_params)._local_pos
    /\ _home_pos = NewInstance(raw_params)._home_pos
    /\ _attitude_setpoint_id = NewInstance(raw_params)._attitude_setpoint_id
    /\ _att_sp_pub = NewInstance(raw_params)._att_sp_pub
    /\ _states = NewInstance(raw_params)._states
    /\ _arm_hysteresis = NewInstance(raw_params)._arm_hysteresis
    /\ _in_smooth_takeoff = NewInstance(raw_params)._in_smooth_takeoff
    /\ _takeoff_speed = NewInstance(raw_params)._takeoff_speed
    /\ _flight_tasks = NewInstance(raw_params)._flight_tasks
    /\ _last_warn = NewInstance(raw_params)._last_warn
    /\ _att_sp = NewInstance(raw_params)._att_sp
    /\ _local_pos_sp = NewInstance(raw_params)._local_pos_sp
    /\ obs = InitObs
    /\ hist = InitHist

\* ms5525_airspeed before its first command: MS5525 *g_dev = nullptr
DriverNotStarted ==
    [g_dev |-> 0, i2c_bus |-> << >>, created |-> 0, last |-> "none", ret |-> 0,
     had |-> 0, started |-> FALSE, commands |-> 0]

InitWith(raw_params) ==
    /\ InitController(raw_params)
    /\ cmd = RunningInstance
    /\ ms5525_airspeed = DriverNotStarted

Init == InitWith(DefaultParams)

----------------------------------------------------------------------------
(* One iteration of the loop of task_main *)

\* a disarm that leaves the flight task running
DisarmedTask_KeepsTask(w) ==
    [task |-> _flight_tasks, calls |-> << >>, w |-> w, task_failure |-> FALSE]

\* disarmed: disable the flight task
DisarmedTask(w) == [task |-> "None", calls |-> << "None" >>, w |-> w,
                    task_failure |-> FALSE]

\* const float dt = t_prev != 0 ? (t - t_prev) / 1e6f : 0.004f
LoopDt(t, prev) == IF prev # 0 THEN t - prev ELSE 4000

\* publish_attitude and the end of the iteration: v is the state reached
FinishIteration(in, t, dt, p, status, id, land, mode, lp, home, sel, v) ==
    \E pa \in {publish_attitude(v.h, mode, id, _att_sp_pub)} :
    \E held \in {hist.landed_held /\ land.landed} :
        /\ now' = t
        /\ t_prev' = t
        /\ _dt' = dt
        /\ params' = p
        /\ _control_mode' = mode
        /\ _vehicle_status' = status
        /\ _vehicle_land_detected' = land
        /\ _local_pos' = lp
        /\ _home_pos' = home
        /\ _attitude_setpoint_id' = id
        /\ _att_sp_pub' = pa.pub
        /\ _states' = v.states
        /\ _arm_hysteresis' = v.h
        /\ _in_smooth_takeoff' = v.in_smooth_takeoff
        /\ _takeoff_speed' = v.takeoff_speed
        /\ _flight_tasks' = sel.task
        /\ _last_warn' = v.w.last_warn
        /\ _att_sp' = v.att_sp
        /\ _local_pos_sp' = v.local_pos_sp
        /\ obs' = [kind |-> "tick", armed |-> mode.flag_armed,
                   active |-> sel.task # "None",
                   calls |-> sel.calls, warns |-> v.w.log,
                   allowed |-> pa.allowed, published |-> pa.published,
                   att_out |-> IF pa.published THEN << v.att_sp >> ELSE << >>,
                   lpsp_published |-> sel.task # "None",
                   reentered |-> v.o.entered /\ held,
                   fail |-> in.fail, warn_requested |-> sel.task_failure,
                   warn_gap |-> WarningGap(v.w.log, hist.last_emit, t),
                   before |-> [h |-> _arm_hysteresis.state, task |-> _flight_tasks,
                               pub |-> _att_sp_pub, in_smooth |-> _in_smooth_takeoff,
                               vz |-> _states.velocity[3], last_warn |-> _last_warn,
                               ramp |-> _takeoff_speed],
                   o |-> v.o]
        /\ hist' = [armed_since |-> IF ~mode.flag_armed THEN 0
                                    ELSE IF _control_mode.flag_armed
                                         THEN hist.armed_since ELSE t,
                    landed_held |-> IF v.o.entered THEN TRUE ELSE held,
                    last_emit |-> IF v.w.log # << >> THEN t ELSE hist.last_emit]
        /\ UNCHANGED << cmd, ms5525_airspeed >>

\* the branch with an active flight task
TaskIteration(in, t, dt, p, status, id, land, mode, lp, home, sel, h0) ==
    \E w1 \in {IF in.update_ok THEN sel.w
               ELSE warn_rate_limited(sel.w, FailsafeWarning(_states), t)} :
    \E sp0 \in {IF in.update_ok THEN in.task_sp
                ELSE FailsafeSetpoint(_states, p, in.uninit)} :
    \E st \in {check_vehicle_states(_states, lp, sp0.vz, p._land_speed)} :
    \E h1 \in {set_state_and_update(h0, mode.flag_armed, t)} :
    \E takeoff_ok \in {h1.state /\ PX4_ISFINITE(st.position[3])
                       /\ PX4_ISFINITE(st.velocity[3])} :
    \E k0 \in {[in_smooth_takeoff |-> _in_smooth_takeoff,
                takeoff_speed |-> _takeoff_speed, entered |-> FALSE]} :
    \E k1 \in {IF takeoff_ok
               THEN check_for_smooth_takeoff(k0, land, st, sp0.z, sp0.vz,
                                             in.constraints, p)
               ELSE k0} :
    \E k2 \in {IF takeoff_ok THEN update_smooth_takeoff(k1, st, sp0.z, sp0.vz, p, dt)
               ELSE k0} :
    \E override \in {takeoff_ok /\ k2.in_smooth_takeoff} :
    \E sp1 \in {IF override THEN TakeoffSetpoint(sp0) ELSE sp0} :
    \E c1 \in {IF override THEN [in.constraints EXCEPT !.speed_up = k2.takeoff_speed]
               ELSE in.constraints} :
    \E idle \in {LandedIdleApplies(land, k2.in_smooth_takeoff, sp1)} :
    \E sp2 \in {IF idle THEN LandedIdleSetpoint(sp1, st) ELSE sp1} :
    \E c2 \in {IF idle THEN [c1 EXCEPT !.landing_gear = "GEAR_KEEP"] ELSE c1} :
    \E sp3 \in {IF PX4_ISFINITE(st.position[3])
                THEN limit_altitude(sp2, land, home, lp, st, dt) ELSE sp2} :
    \E out \in {generateThrustYawSetpoint(sp3, in.pid)} :
    \E lim \in {LandingLimitRuns(k2.in_smooth_takeoff, sp3)} :
    \E c0 \in {[thr_sp |-> out.thr_sp, reset_xy |-> FALSE, reset_z |-> FALSE]} :
    \E c \in {IF lim THEN limit_thrust_during_landing(c0, land) ELSE c0} :
    \E fresh \in {[tilted |-> FALSE, yaw_body |-> 0, thrust_vec |-> << 0, 0, 0 >>,
                   yaw_sp_move_rate |-> 0, landing_gear |-> "LANDING_GEAR_UNSET"]} :
        FinishIteration(in, t, dt, p, status, id, land, mode, lp, home, sel,
            [states |-> st, h |-> h1, w |-> w1,
             in_smooth_takeoff |-> k2.in_smooth_takeoff,
             takeoff_speed |-> k2.takeoff_speed,
             att_sp |-> [thrustToAttitude(fresh, c.thr_sp, out.yaw) EXCEPT
                           !.yaw_sp_move_rate = out.yawspeed,
                           !.landing_gear = LandingGear(fresh.landing_gear,
                                                        c2.landing_gear)],
             local_pos_sp |-> [timestamp |-> t, pos |-> out.pos_sp,
                               vel |-> out.vel_sp, yaw |-> out.yaw,
                               yawspeed |-> out.yawspeed, thrust |-> c.thr_sp],
             o |-> [update_ok |-> in.update_ok, sp_task |-> sp0,
                    takeoff_ok |-> takeoff_ok, entered |-> k1.entered,
                    ramp_prev |-> k1.takeoff_speed,
                    in_takeoff_update |-> takeoff_ok /\ k1.in_smooth_takeoff,
                    desired |-> DesiredTkoSpeed(sp0.z, sp0.vz, p),
                    idle |-> idle, sp_pre_fence |-> sp2, setpoint |-> sp3,
                    constraints |-> c2, thr_pid |-> out.thr_sp, limit_ran |-> lim,
                    thr_sp |-> c.thr_sp, reset_xy |-> c.reset_xy,
                    reset_z |-> c.reset_z]])

\* the branch without an active flight task
IdleIteration(in, t, dt, p, status, id, land, mode, lp, home, sel, h0) ==
    FinishIteration(in, t, dt, p, status, id, land, mode, lp, home, sel,
        [states |-> _states, h |-> h0, w |-> sel.w,
         in_smooth_takeoff |-> _in_smooth_takeoff,
         takeoff_speed |-> _takeoff_speed,
         att_sp |-> IdleAttitude(_att_sp, lp),
         local_pos_sp |-> _local_pos_sp,
         o |-> NoTaskObs])

\* a loop that does not look at _task_should_exit
LoopContinues_IgnoresFlag(c) == TRUE

\* while (!_task_should_exit)
LoopContinues(c) == ~c._task_should_exit

\* one iteration, horizon bounds the clock of the model
Tick(in, horizon) ==
    /\ cmd.thread = "running" /\ LoopContinues(cmd)
    /\ now + in.wait <= horizon
    /\ \E t \in {now + in.wait} :
       \E status \in {orb_copy(in.status, _vehicle_status)} :
       \E id \in {AttitudeSetpointId(_attitude_setpoint_id, in.status)} :
       \E land \in {orb_copy(in.land, _vehicle_land_detected)} :
       \E mode \in {orb_copy(in.mode, _control_mode)} :
       \E lp \in {orb_copy(in.lpos, _local_pos)} :
       \E home \in {orb_copy(in.home, _home_pos)} :
       \E p \in {IF in.params # << >> THEN parameters_update(in.params[1])
                 ELSE params} :
       \E dt \in {LoopDt(t, t_prev)} :
       \E sel \in {IF mode.flag_armed
                   THEN start_flight_task(_flight_tasks,
                                          [last_warn |-> _last_warn, log |-> << >>],
                                          status.nav_state,
                                          mode.flag_control_auto_enabled,
                                          p.MPC_POS_MODE, in.fail, t)
                   ELSE DisarmedTask([last_warn |-> _last_warn, log |-> << >>])} :
       \E h0 \in {IF mode.flag_armed THEN _arm_hysteresis
                  ELSE set_state_and_update(_arm_hysteresis, FALSE, t)} :
           IF sel.task # "None"
           THEN TaskIteration(in, t, dt, p, status, id, land, mode, lp, home, sel, h0)
           ELSE IdleIteration(in, t, dt, p, status, id, land, mode, lp, home, sel, h0)

\* px4_poll failed: the iteration is skipped
PollError(wait, horizon) ==
    /\ cmd.thread = "running" /\ LoopContinues(cmd)
    /\ now + wait <= horizon
    /\ now' = now + wait
    /\ obs' = [InitObs EXCEPT !.kind = "poll_error", !.armed = _control_mode.flag_armed,
                              !.active = (_flight_tasks # "None")]
    /\ UNCHANGED << t_prev, _dt, params, _control_mode, _vehicle_status,
                    _vehicle_land_detected, _local_pos, _home_pos,
                    _attitude_setpoint_id, _att_sp_pub, _states, _arm_hysteresis,
                    _in_smooth_takeoff, _takeoff_speed, _flight_tasks, _last_warn,
                    _att_sp, _local_pos_sp, hist, cmd, ms5525_airspeed >>

----------------------------------------------------------------------------
(* Inputs of an iteration: topic updates (an empty sequence is "not updated"), *)
(* the outcome of the flight task calls and what the PID core computes for     *)
(* the free axes                                                               *)

\* a valid estimator sample
LocalPosSample(z, vz, yaw) ==
    [timestamp |-> 1, x |-> 0, y |-> 0, z |-> z, vx |-> 0, vy |-> 0, vz |-> vz,
     z_deriv |-> vz, yaw |-> yaw, xy_valid |-> TRUE, z_valid |-> TRUE,
     v_xy_valid |-> TRUE, v_z_valid |-> TRUE]

ControlMode(armed, offboard, controlled) ==
    [flag_armed |-> armed, flag_control_auto_enabled |-> FALSE,
     flag_control_offboard_enabled |-> offboard,
     flag_control_position_enabled |-> controlled,
     flag_control_velocity_enabled |-> controlled,
     flag_control_acceleration_enabled |-> FALSE]

\* a stabilized-style setpoint: thrust only
ThrustSetpoint(tz) == [NanSetpoint EXCEPT !.thrust = << 0, 0, tz >>, !.yaw = 0]

\* a position or velocity setpoint
ClimbSetpoint(z, vz) == [NanSetpoint EXCEPT !.x = 0, !.y = 0, !.z = z, !.vz = vz,
                                            !.yaw = 0]

PidOutput(tx, ty, tz) == [thr |-> << tx, ty, tz >>, yaw |-> 0, yawspeed |-> 0]

\* period of the loop in the arming model
ArmPeriod == 1250000

ArmInputs ==
    [wait        : {ArmPeriod},
     status      : {<< >>, << [nav_state |-> "MANUAL", is_vtol |-> FALSE] >>,
                    << [nav_state |-> "OFFBOARD", is_vtol |-> TRUE] >>},
     land        : {<< >>},
     mode        : {<< >>, << ControlMode(TRUE, FALSE, TRUE) >>,
                    << ControlMode(FALSE, FALSE, TRUE) >>,
                    << ControlMode(TRUE, TRUE, FALSE) >>},
     lpos        : {<< >>, << LocalPosSample(0, 0, NaN) >>},
     home        : {<< >>},
     params      : {<< >>},
     fail        : {{}, FlightTaskIndex},
     update_ok   : {TRUE},
     task_sp     : {ThrustSetpoint(0 - 50)},
     uninit      : {[yaw |-> 0, yawspeed |-> 0]},
     constraints : {NoConstraints},
     pid         : {PidOutput(0, 0, 0 - 50)}]

NextArm ==
    \/ \E in \in ArmInputs : Tick(in, MaxNow)
    \/ PollError(ArmPeriod, MaxNow)

Spec == Init /\ [][NextArm]_vars

----------------------------------------------------------------------------
(* Takeoff model: armed from the first iteration on, a position or velocity   *)
(* setpoint from the task, land detection and the estimated height vary       *)

\* the clock of the takeoff model is not advanced past this value
MaxNowTakeoff == 10100000

\* period of the loop in the takeoff model
TakeoffPeriod == 1250000

TakeoffParams ==
    [_takeoff_ramp_time |-> 2500, _vel_max_up |-> 300, _vel_max_down |-> 100,
     _land_speed |-> 60, _tko_speed |-> 80, MPC_LAND_ALT2 |-> 500, MPC_POS_MODE |-> 0]

LandDetected(landed, maybe_landed, ground_contact, alt_max) ==
    [landed |-> landed, maybe_landed |-> maybe_landed,
     ground_contact |-> ground_contact, alt_max |-> alt_max]

TakeoffInputs ==
    [wait        : {TakeoffPeriod},
     status      : {<< [nav_state |-> "POSCTL", is_vtol |-> FALSE] >>},
     land        : {<< LandDetected(TRUE, FALSE, FALSE, 0 - 1) >>,
                    << LandDetected(FALSE, FALSE, FALSE, 0 - 1) >>},
     mode        : {<< ControlMode(TRUE, FALSE, TRUE) >>},
     lpos        : {<< LocalPosSample(0, 0, 0) >>, << LocalPosSample(0 - 200, 0, 0) >>,
                    << LocalPosSample(0 - 600, 0, 0) >>},
     home        : {<< >>},
     params      : {<< >>},
     fail        : {{}},
     update_ok   : {TRUE},
     task_sp     : {ClimbSetpoint(0 - 200, NaN), ClimbSetpoint(0 - 800, NaN),
                    ClimbSetpoint(NaN, 0 - 100), ClimbSetpoint(NaN, 0 - 20)},
     uninit      : {[yaw |-> 0, yawspeed |-> 0]},
     constraints : {NoConstraints},
     pid         : {PidOutput(0, 0, 0 - 50)}]
    \cup
    [wait        : {TakeoffPeriod},
     status      : {<< [nav_state |-> "POSCTL", is_vtol |-> FALSE] >>},
     land        : {<< LandDetected(TRUE, FALSE, FALSE, 0 - 1) >>,
                    << LandDetected(FALSE, FALSE, FALSE, 0 - 1) >>},
     mode        : {<< ControlMode(TRUE, FALSE, TRUE) >>},
     lpos        : {<< LocalPosSample(0, 0, 0) >>},
     home        : {<< >>},
     params      : {<< >>},
     fail        : {{}},
     update_ok   : {FALSE},
     task_sp     : {NanSetpoint},
     uninit      : {[yaw |-> 0, yawspeed |-> 0]},
     constraints : {NoConstraints},
     pid         : {PidOutput(0, 0, 0 - 50)}]

InitTakeoff == InitWith(TakeoffParams)

NextTakeoff ==
    \/ \E in \in TakeoffInputs : Tick(in, MaxNowTakeoff)
    \/ PollError(TakeoffPeriod, MaxNowTakeoff)

SpecTakeoff == InitTakeoff /\ [][NextTakeoff]_vars

----------------------------------------------------------------------------
(* Fence model: armed, the Stabilized task active from the first iteration,   *)
(* the ceiling, the home position, the estimated height and the setpoint vary *)

\* the clock of the fence model is not advanced past this value
MaxNowFence == 310000

\* period of the loop in the fence model
FencePeriod == 100000

VzInvalid(lp) == [lp EXCEPT !.v_z_valid = FALSE]

ZInvalid(lp) == [lp EXCEPT !.z_valid = FALSE]

FenceInputs ==
    [wait        : {FencePeriod},
     status      : {<< >>},
     land        : {<< LandDetected(FALSE, FALSE, FALSE, 0 - 1) >>,
                    << LandDetected(FALSE, FALSE, FALSE, 1000) >>},
     mode        : {<< ControlMode(TRUE, FALSE, TRUE) >>},
     lpos        : {<< LocalPosSample(0 - 990, 0, 0) >>,
                    << LocalPosSample(0 - 500, 0, 0) >>,
                    << LocalPosSample(0 - 1150, 0, 0) >>,
                    << VzInvalid(LocalPosSample(0 - 990, 0, 0)) >>,
                    << VzInvalid(LocalPosSample(0 - 1150, 0, 0)) >>,
                    << ZInvalid(LocalPosSample(0 - 1150, 0, 0)) >>},
     home        : {<< [z |-> 0, valid_alt |-> TRUE] >>,
                    << [z |-> 0, valid_alt |-> FALSE] >>,
                    << [z |-> 100, valid_alt |-> TRUE] >>},
     params      : {<< >>},
     fail        : {{}},
     update_ok   : {TRUE},
     task_sp     : {ClimbSetpoint(NaN, 0 - 200), ClimbSetpoint(NaN, 0 - 50),
                    ClimbSetpoint(NaN, 100), ClimbSetpoint(0 - 2000, NaN),
                    ClimbSetpoint(0 - 500, 0)},
     uninit      : {[yaw |-> 0, yawspeed |-> 0]},
     constraints : {NoConstraints},
     pid         : {PidOutput(0, 0, 0 - 50)}]

NextFence ==
    \/ \E in \in FenceInputs : Tick(in, MaxNowFence)
    \/ PollError(FencePeriod, MaxNowFence)

SpecFence == Init /\ [][NextFence]_vars

----------------------------------------------------------------------------
(* Landing model: armed, a velocity or a thrust setpoint, every combination   *)
(* of the land detection flags                                                *)

\* the clock of the landing model is not advanced past this value
MaxNowLanding == 5100000

\* period of the loop in the landing model
LandingPeriod == 1250000

LandingInputs ==
    [wait        : {LandingPeriod},
     status      : {<< [nav_state |-> "POSCTL", is_vtol |-> FALSE] >>},
     land        : {<< LandDetected(l, m, g, 0 - 1) >> : l, m, g \in BOOLEAN},
     mode        : {<< ControlMode(TRUE, FALSE, TRUE) >>},
     lpos        : {<< LocalPosSample(0, 0, 0) >>},
     home        : {<< >>},
     params      : {<< >>},
     fail        : {{}},
     update_ok   : {TRUE},
     task_sp     : {ClimbSetpoint(NaN, 0 - 100), ThrustSetpoint(0 - 50)},
     uninit      : {[yaw |-> 0, yawspeed |-> 0]},
     constraints : {NoConstraints},
     pid         : {PidOutput(30, 0 - 10, 60)}]

NextLanding ==
    \/ \E in \in LandingInputs : Tick(in, MaxNowLanding)
    \/ PollError(LandingPeriod, MaxNowLanding)

SpecLanding == InitTakeoff /\ [][NextLanding]_vars

----------------------------------------------------------------------------
(* Selector model: armed, every navigation state with and without the auto    *)
(* flag, every value of MPC_POS_MODE, activations that fail                   *)

\* the clock of the selector model is not advanced past this value
MaxNowSelect == 210000

\* period of the loop in the selector model
SelectPeriod == 100000

PrimaryTasks == {"Offboard", "AutoFollowMe", "AutoLine"}

ManualTasks == {"Position", "PositionSmooth", "Sport"}

\* the sets of flight tasks whose activation fails in one iteration
SelectFailures ==
    {{}, PrimaryTasks, PrimaryTasks \cup ManualTasks,
     PrimaryTasks \cup ManualTasks \cup {"Altitude"}, FlightTaskIndex,
     {"Stabilized"}, {"Offboard", "Altitude", "Stabilized"}, ManualTasks}

AutoMode(auto) == [ControlMode(TRUE, FALSE, TRUE) EXCEPT !.flag_control_auto_enabled = auto]

SelectInputs ==
    [wait        : {SelectPeriod},
     status      : {<< [nav_state |-> n, is_vtol |-> FALSE] >> : n \in NavStates},
     land        : {<< >>},
     mode        : {<< AutoMode(a) >> : a \in BOOLEAN},
     lpos        : {<< LocalPosSample(0, 0, 0) >>},
     home        : {<< >>},
     params      : {<< [DefaultParams EXCEPT !.MPC_POS_MODE = m] >> : m \in 0 .. 3},
     fail        : SelectFailures,
     update_ok   : {TRUE},
     task_sp     : {ThrustSetpoint(0 - 50)},
     uninit      : {[yaw |-> 0, yawspeed |-> 0]},
     constraints : {NoConstraints},
     pid         : {PidOutput(0, 0, 0 - 50)}]

NextSelect ==
    \/ \E in \in SelectInputs : Tick(in, MaxNowSelect)
    \/ PollError(SelectPeriod, MaxNowSelect)

SpecSelect == Init /\ [][NextSelect]_vars

----------------------------------------------------------------------------
(* Warning model: a loop of 10 Hz in which the activation of tasks and the     *)
(* update of the active task fail; the failsafe setpoint is a local variable   *)
(* whose yaw and yawspeed are never assigned, so they hold any value           *)

\* the clock of the warning model is not advanced past this value
MaxNowWarn == 510000

\* period of the loop in the warning model
WarnPeriod == 100000

\* what the unassigned fields of the local setpoint may hold
Uninitialized == {[yaw |-> NaN, yawspeed |-> NaN], [yaw |-> 157, yawspeed |-> 10]}

WarnInputs ==
    [wait        : {WarnPeriod},
     status      : {<< [nav_state |-> "OFFBOARD", is_vtol |-> FALSE] >>,
                    << [nav_state |-> "MANUAL", is_vtol |-> FALSE] >>},
     land        : {<< >>},
     mode        : {<< ControlMode(TRUE, FALSE, TRUE) >>},
     lpos        : {<< LocalPosSample(0 - 300, 0, 0) >>,
                    << LocalPosSample(0 - 300, NaN, 0) >>},
     home        : {<< >>},
     params      : {<< >>},
     fail        : {{}, {"Offboard"}, FlightTaskIndex},
     update_ok   : {FALSE},
     task_sp     : {NanSetpoint},
     uninit      : Uninitialized,
     constraints : {NoConstraints},
     pid         : {PidOutput(0, 0, 0 - 50)}]
    \cup
    [wait        : {WarnPeriod},
     status      : {<< [nav_state |-> "OFFBOARD", is_vtol |-> FALSE] >>,
                    << [nav_state |-> "MANUAL", is_vtol |-> FALSE] >>},
     land        : {<< >>},
     mode        : {<< ControlMode(TRUE, FALSE, TRUE) >>},
     lpos        : {<< LocalPosSample(0 - 300, 0, 0) >>,
                    << LocalPosSample(0 - 300, NaN, 0) >>},
     home        : {<< >>},
     params      : {<< >>},
     fail        : {{}, {"Offboard"}, FlightTaskIndex},
     update_ok   : {TRUE},
     task_sp     : {ClimbSetpoint(NaN, 0 - 100)},
     uninit      : {[yaw |-> 0, yawspeed |-> 0]},
     constraints : {NoConstraints},
     pid         : {PidOutput(0, 0, 0 - 50)}]

NextWarn ==
    \/ \E in \in WarnInputs : Tick(in, MaxNowWarn)
    \/ PollError(WarnPeriod, MaxNowWarn)

SpecWarn == Init /\ [][NextWarn]_vars

----------------------------------------------------------------------------
(* The mc_pos_control command and the life of the control task.  A command    *)
(* runs to its end before the next one is given; the destructor sleeps in     *)
(* steps of 20 ms during which the control task runs.  px4_task_spawn_cmd     *)
(* returns a task id or a negative value, px4_task_delete ends the task.      *)

\* number of commands given in the command model
MaxCommands == 4

\* the clock of the command model is not advanced past this value
MaxNowCmd == 2600000

\* period of the loop in the command model
CmdPeriod == 1250000

\* before the first start: no instance, no task
NoInstance ==
    [g_control |-> "null", _control_task |-> 0 - 1, _task_should_exit |-> FALSE,
     thread |-> "none", pc |-> "idle", i |-> 0, instances |-> 0, id |-> 0,
     last |-> "none", ret |-> 0, had |-> FALSE, had_id |-> 0, commands |-> 0]

InitCmd ==
    /\ InitController(DefaultParams)
    /\ cmd = NoInstance
    /\ ms5525_airspeed = DriverNotStarted

\* what px4_task_spawn_cmd may return
SpawnResults == {1, 0 - 1, 0 - 12}

instance_vars == << t_prev, _dt, params, _control_mode, _vehicle_status,
                    _vehicle_land_detected, _local_pos, _home_pos,
                    _attitude_setpoint_id, _att_sp_pub, _states, _arm_hysteresis,
                    _in_smooth_takeoff, _takeoff_speed, _flight_tasks, _last_warn,
                    _att_sp, _local_pos_sp, hist >>

\* the command of the last step
CommandObs(kind) == [InitObs EXCEPT !.kind = kind]

\* a command begins: c with the command noted
Begin(c, name) ==
    [c EXCEPT !.last = name, !.had = (c.g_control # "null"), !.had_id = c.id,
              !.commands = c.commands + 1]

\* a start that does not look for a running instance
AlreadyRunning_Never(c) == FALSE

\* pos_control::g_control != nullptr
AlreadyRunning(c) == c.g_control # "null"

\* the destructor gives up waiting
DtorGivesUp(i) == i > 50

\* the end of the destructor and of the command that called it
Released(c, ret) ==
    [c EXCEPT !.g_control = "null", !.instances = c.instances - 1, !.pc = "idle",
              !.ret = ret]

\* ~MulticopterPositionControl up to the first usleep
Destructor(c, pc, ret) ==
    IF c._control_task # 0 - 1
    THEN [c EXCEPT !._task_should_exit = TRUE, !.pc = pc, !.i = 0]
    ELSE Released(c, ret)

\* argc < 2, or a command that is none of start, stop, status
CmdUsage ==
    /\ cmd.pc = "idle" /\ cmd.commands < MaxCommands
    /\ cmd' = [Begin(cmd, "usage") EXCEPT !.ret = 1]
    /\ obs' = CommandObs("command")
    /\ UNCHANGED << now, instance_vars, ms5525_airspeed >>

CmdStatus ==
    /\ cmd.pc = "idle" /\ cmd.commands < MaxCommands
    /\ cmd' = [Begin(cmd, "status") EXCEPT !.ret = IF cmd.g_control # "null" THEN 0 ELSE 1]
    /\ obs' = CommandObs("command")
    /\ UNCHANGED << now, instance_vars, ms5525_airspeed >>

\* a new MulticopterPositionControl
Construct ==
    /\ t_prev' = NewInstance(DefaultParams).t_prev
    /\ _dt' = NewInstance(DefaultParams)._dt
    /\ params' = NewInstance(DefaultParams).params
    /\ _control_mode' = NewInstance(DefaultParams)._control_mode
    /\ _vehicle_status' = NewInstance(DefaultParams)._vehicle_status
    /\ _vehicle_land_detected' = NewInstance(DefaultParams)._vehicle_land_detected
    /\ _local_pos' = NewInstance(DefaultParams)._local_pos
    /\ _home_pos' = NewInstance(DefaultParams)._home_pos
    /\ _attitude_setpoint_id' = NewInstance(DefaultParams)._attitude_setpoint_id
    /\ _att_sp_pub' = NewInstance(DefaultParams)._att_sp_pub
    /\ _states' = NewInstance(DefaultParams)._states
    /\ _arm_hysteresis' = NewInstance(DefaultParams)._arm_hysteresis
    /\ _in_smooth_takeoff' = NewInstance(DefaultParams)._in_smooth_takeoff
    /\ _takeoff_speed' = NewInstance(DefaultParams)._takeoff_speed
    /\ _flight_tasks' = NewInstance(DefaultParams)._flight_tasks
    /\ _last_warn' = NewInstance(DefaultParams)._last_warn
    /\ _att_sp' = NewInstance(DefaultParams)._att_sp
    /\ _local_pos_sp' = NewInstance(DefaultParams)._local_pos_sp
    /\ hist' = InitHist

\* mc_pos_control start; alloc_ok is the outcome of new, spawn what
\* px4_task_spawn_cmd returns
CmdStart(alloc_ok, spawn) ==
    /\ cmd.pc = "idle" /\ cmd.commands < MaxCommands
    /\ obs' = CommandObs("command")
    /\ now' = now
    /\ UNCHANGED ms5525_airspeed
    /\ IF AlreadyRunning(cmd) \/ ~alloc_ok
       THEN /\ cmd' = [Begin(cmd, "start") EXCEPT !.ret = 1]
            /\ UNCHANGED instance_vars
       ELSE /\ Construct
            /\ \E c \in {[Begin(cmd, "start") EXCEPT
                             !.g_control = "instance", !.instances = cmd.instances + 1,
                             !.id = cmd.id + 1, !._task_should_exit = FALSE,
                             !._control_task = spawn, !.i = 0,
                             !.thread = IF spawn >= 0 THEN "running" ELSE "none"]} :
                  cmd' = IF spawn < 0 THEN Destructor(c, "dtor_start", 1)
                         ELSE [c EXCEPT !.ret = 0]

\* mc_pos_control stop
CmdStop ==
    /\ cmd.pc = "idle" /\ cmd.commands < MaxCommands
    /\ obs' = CommandObs("command")
    /\ cmd' = IF cmd.g_control = "null"
              THEN [Begin(cmd, "stop") EXCEPT !.ret = 1]
              ELSE Destructor(Begin(cmd, "stop"), "dtor_stop", 0)
    /\ UNCHANGED << now, instance_vars, ms5525_airspeed >>

\* one round of the do-while of the destructor: usleep(20000), then the tests
DtorPoll ==
    /\ cmd.pc \in {"dtor_stop", "dtor_start"}
    /\ obs' = CommandObs("command")
    /\ \E c \in {[cmd EXCEPT !.i = cmd.i + 1]} :
       \E ret \in {IF cmd.pc = "dtor_stop" THEN 0 ELSE 1} :
          cmd' = IF DtorGivesUp(c.i)
                 THEN Released([c EXCEPT !.thread = IF c.thread = "running"
                                                    THEN "deleted" ELSE c.thread],
                               ret)
                 ELSE IF c._control_task = 0 - 1 THEN Released(c, ret)
                 ELSE c
    /\ UNCHANGED << now, instance_vars, ms5525_airspeed >>

\* the control task finds _task_should_exit set, leaves the loop and returns
TaskExit ==
    /\ cmd.thread = "running" /\ ~LoopContinues(cmd)
    /\ cmd' = [cmd EXCEPT !.thread = "exited", !._control_task = 0 - 1]
    /\ obs' = CommandObs("exit")
    /\ UNCHANGED << now, instance_vars, ms5525_airspeed >>

CmdInputs ==
    [wait        : {CmdPeriod},
     status      : {<< [nav_state |-> "MANUAL", is_vtol |-> FALSE] >>},
     land        : {<< >>},
     mode        : {<< ControlMode(TRUE, FALSE, TRUE) >>, << ControlMode(FALSE, FALSE, TRUE) >>},
     lpos        : {<< LocalPosSample(0, 0, 0) >>},
     home        : {<< >>},
     params      : {<< >>},
     fail        : {{}},
     update_ok   : {TRUE},
     task_sp     : {ThrustSetpoint(0 - 50)},
     uninit      : {[yaw |-> 0, yawspeed |-> 0]},
     constraints : {NoConstraints},
     pid         : {PidOutput(0, 0, 0 - 50)}]

NextCmd ==
    \/ \E in \in CmdInputs : Tick(in, MaxNowCmd)
    \/ PollError(CmdPeriod, MaxNowCmd)
    \/ \E alloc_ok \in BOOLEAN, spawn \in SpawnResults : CmdStart(alloc_ok, spawn)
    \/ CmdStop
    \/ CmdStatus
    \/ CmdUsage
    \/ DtorPoll
    \/ TaskExit

SpecCmd == InitCmd /\ [][NextCmd]_vars

----------------------------------------------------------------------------
(* Ramp model: three iterations 1.25 s apart arm the vehicle and let the       *)
(* hysteresis expire, then the loop runs every 20 ms                           *)

\* the clock of the ramp model is not advanced past this value
MaxNowRamp == 3840000

\* period of the first three iterations of the ramp model
RampCoarse == 1250000

\* period of the later iterations of the ramp model
RampFine == 20000

RampInputs ==
    [wait        : {RampCoarse, RampFine},
     status      : {<< [nav_state |-> "POSCTL", is_vtol |-> FALSE] >>},
     land        : {<< LandDetected(TRUE, FALSE, FALSE, 0 - 1) >>,
                    << LandDetected(FALSE, FALSE, FALSE, 0 - 1) >>},
     mode        : {<< ControlMode(TRUE, FALSE, TRUE) >>},
     lpos        : {<< LocalPosSample(0, 0, 0) >>, << LocalPosSample(0 - 190, 0, 0) >>,
                    << ZInvalid(LocalPosSample(0, 0, 0)) >>},
     home        : {<< >>},
     params      : {<< >>},
     fail        : {{}},
     update_ok   : {TRUE},
     task_sp     : {ClimbSetpoint(0 - 200, NaN), ClimbSetpoint(NaN, 0 - 200),
                    ClimbSetpoint(NaN, 60)},
     uninit      : {[yaw |-> 0, yawspeed |-> 0]},
     constraints : {NoConstraints},
     pid         : {PidOutput(0, 0, 0 - 50)}]

NextRamp ==
    \/ \E in \in RampInputs :
          /\ in.wait = RampFine <=> now >= 3 * RampCoarse
          /\ Tick(in, MaxNowRamp)
    \/ \E wait \in {RampCoarse, RampFine} :
          /\ wait = RampFine <=> now >= 3 * RampCoarse
          /\ PollError(wait, MaxNowRamp)

SpecRamp == Init /\ [][NextRamp]_vars

----------------------------------------------------------------------------
(* Ground model: armed for less than the hysteresis time, landed or not, the    *)
(* ceiling enabled or not, every landing gear command of the constraints        *)

\* the clock of the ground model is not advanced past this value
MaxNowGround == 310000

\* period of the loop in the ground model
GroundPeriod == 100000

GearConstraints(gear) == [NoConstraints EXCEPT !.landing_gear = gear]

GroundInputs ==
    [wait        : {GroundPeriod},
     status      : {<< [nav_state |-> "POSCTL", is_vtol |-> FALSE] >>},
     land        : {<< LandDetected(TRUE, FALSE, FALSE, 0 - 1) >>,
                    << LandDetected(TRUE, FALSE, FALSE, 1000) >>,
                    << LandDetected(FALSE, FALSE, FALSE, 1000) >>},
     mode        : {<< ControlMode(TRUE, FALSE, TRUE) >>},
     lpos        : {<< LocalPosSample(0, 0, 31) >>,
                    << LocalPosSample(0 - 1150, 0, 31) >>},
     home        : {<< [z |-> 0, valid_alt |-> TRUE] >>},
     params      : {<< >>},
     fail        : {{}},
     update_ok   : {TRUE},
     task_sp     : {ClimbSetpoint(0 - 2000, NaN), ClimbSetpoint(NaN, 0 - 50),
                    ThrustSetpoint(0 - 50)},
     uninit      : {[yaw |-> 0, yawspeed |-> 0]},
     constraints : {GearConstraints(g) : g \in GearValues},
     pid         : {PidOutput(0, 0, 0 - 50)}]

NextGround ==
    \/ \E in \in GroundInputs : Tick(in, MaxNowGround)
    \/ PollError(GroundPeriod, MaxNowGround)

SpecGround == Init /\ [][NextGround]_vars

----------------------------------------------------------------------------
(* Rearm model: the vehicle is armed and disarmed at will, on the ground or in  *)
(* the air, with a climb setpoint from the task                                 *)

\* the clock of the rearm model is not advanced past this value
MaxNowRearm == 10100000

\* period of the loop in the rearm model
RearmPeriod == 1250000

RearmInputs ==
    [wait        : {RearmPeriod},
     status      : {<< [nav_state |-> "POSCTL", is_vtol |-> FALSE] >>},
     land        : {<< LandDetected(TRUE, FALSE, FALSE, 0 - 1) >>,
                    << LandDetected(FALSE, FALSE, FALSE, 0 - 1) >>},
     mode        : {<< ControlMode(TRUE, FALSE, TRUE) >>,
                    << ControlMode(FALSE, FALSE, TRUE) >>},
     lpos        : {<< LocalPosSample(0, 0, 0) >>},
     home        : {<< >>},
     params      : {<< >>},
     fail        : {{}},
     update_ok   : {TRUE},
     task_sp     : {ClimbSetpoint(NaN, 0 - 200), ClimbSetpoint(0 - 200, NaN)},
     uninit      : {[yaw |-> 0, yawspeed |-> 0]},
     constraints : {NoConstraints},
     pid         : {PidOutput(0, 0, 0 - 50)}]

NextRearm ==
    \/ \E in \in RearmInputs : Tick(in, MaxNowRearm)
    \/ PollError(RearmPeriod, MaxNowRearm)

SpecRearm == Init /\ [][NextRearm]_vars

----------------------------------------------------------------------------
(* The ms5525_airspeed command (MS5525_main.cpp).  g_dev is the number of the   *)
(* MS5525 object it points to, nullptr when there is none; a command runs to    *)
(* its end before the next one is given.                                        *)

\* number of commands given in the driver model
MaxDriverCommands == 4

nullptr == 0

PX4_OK == 0

PX4_ERROR == 0 - 1

\* the -b / --bus option of the command line, empty when it is not given
BusOptions == {<< >>, << 1 >>, << 2 >>}

\* how far start gets: new, init, px4_open and px4_ioctl can each fail
StartResults == {"ok", "no_memory", "init_failed", "open_failed", "ioctl_failed"}

\* px4_open and the two px4_ioctl of reset
ResetResults == {"ok", "open_failed", "reset_failed", "pollrate_failed"}

controller_vars == << now, instance_vars, obs, cmd >>

\* a command begins: d with the command noted
DriverBegin(d, name) ==
    [d EXCEPT !.last = name, !.had = d.g_dev, !.commands = d.commands + 1]

\* the label fail of start
StartFail(d) == [d EXCEPT !.g_dev = nullptr, !.ret = PX4_ERROR]

\* ms5525_airspeed::start
ms5525_start(d, opt, result) ==
    IF d.g_dev # nullptr THEN StartFail(d)
    ELSE IF result = "no_memory" THEN StartFail(d)
    ELSE LET d1 == [d EXCEPT !.g_dev = d.created + 1, !.created = d.created + 1,
                             !.i2c_bus = opt]
         IN  IF result # "ok" THEN StartFail(d1)
             ELSE [d1 EXCEPT !.ret = PX4_OK, !.started = TRUE]

\* ms5525_airspeed::stop
ms5525_stop(d) ==
    IF d.g_dev # nullptr
    THEN [d EXCEPT !.g_dev = nullptr, !.ret = PX4_OK, !.started = FALSE]
    ELSE [d EXCEPT !.ret = PX4_ERROR, !.started = FALSE]

\* ms5525_airspeed::reset
ms5525_reset(d, result) == [d EXCEPT !.ret = IF result = "ok" THEN PX4_OK ELSE PX4_ERROR]

\* ms5525_airspeed_main with a command that is none of start, stop, reset
ms5525_airspeed_usage(d) == [d EXCEPT !.ret = PX4_OK]

MainStart(opt, result) ==
    /\ ms5525_airspeed.commands < MaxDriverCommands
    /\ ms5525_airspeed' = ms5525_start(DriverBegin(ms5525_airspeed, "start"), opt, result)
    /\ UNCHANGED controller_vars

MainStop ==
    /\ ms5525_airspeed.commands < MaxDriverCommands
    /\ ms5525_airspeed' = ms5525_stop(DriverBegin(ms5525_airspeed, "stop"))
    /\ UNCHANGED controller_vars

\* the device node exists only while the driver is started
MainReset(result) ==
    /\ ms5525_airspeed.commands < MaxDriverCommands
    /\ ms5525_airspeed.g_dev = nullptr => result = "open_failed"
    /\ ms5525_airspeed' = ms5525_reset(DriverBegin(ms5525_airspeed, "reset"), result)
    /\ UNCHANGED controller_vars

MainUsage ==
    /\ ms5525_airspeed.commands < MaxDriverCommands
    /\ ms5525_airspeed' = ms5525_airspeed_usage(DriverBegin(ms5525_airspeed, "usage"))
    /\ UNCHANGED controller_vars

NextDriver ==
    \/ \E opt \in BusOptions, result \in StartResults : MainStart(opt, result)
    \/ MainStop
    \/ \E result \in ResetResults : MainReset(result)
    \/ MainUsage

SpecDriver == Init /\ [][NextDriver]_vars

----------------------------------------------------------------------------
(* Properties of arming and of the attitude publication *)

\* C1: on every iteration with flag_armed false the flight task is None, the
\* arm hysteresis is false and no attitude setpoint is published
C1_DisarmedIsIdle ==
    (obs.kind = "tick" /\ ~obs.armed)
        => /\ _flight_tasks = "None"
           /\ ~obs.active
           /\ ~_arm_hysteresis.state
           /\ ~obs.published
           /\ obs.att_out = << >>

\* a disarm observed while a task was active and the hysteresis was true
C1_Witness ==
    obs.kind = "tick" /\ ~obs.armed /\ obs.before.h /\ obs.before.task # "None"

\* offboard is enabled with position, velocity and acceleration control disabled
C2_Exempt ==
    /\ _control_mode.flag_control_offboard_enabled
    /\ ~_control_mode.flag_control_position_enabled
    /\ ~_control_mode.flag_control_velocity_enabled
    /\ ~_control_mode.flag_control_acceleration_enabled

\* C2 as stated: an attitude setpoint is published exactly when the hysteresis is
\* true and offboard-without-control does not apply
C2_PublishedIffAllowed ==
    obs.kind = "tick"
        => (obs.published <=> (_arm_hysteresis.state /\ ~C2_Exempt))

\* C2 amended: published exactly when the hysteresis is true, offboard-without-
\* control does not apply and the topic id is known (a vehicle_status sample was
\* received); never published with offboard-without-control
C2_PublishedIffAllowedAndIdKnown ==
    obs.kind = "tick"
        => /\ obs.published <=> (_arm_hysteresis.state /\ ~C2_Exempt
                                 /\ _attitude_setpoint_id # "null")
           /\ C2_Exempt => ~obs.published
           /\ obs.published => obs.att_out = << _att_sp >>

\* the first publication (the advertisement)
C2_Witness ==
    obs.kind = "tick" /\ obs.published /\ ~obs.before.pub /\ _att_sp_pub

AttitudeFinite(att) ==
    /\ PX4_ISFINITE(att.yaw_body)
    /\ PX4_ISFINITE(att.yaw_sp_move_rate)
    /\ \A i \in 1..3 : PX4_ISFINITE(att.thrust_vec[i])

\* C3: every published attitude setpoint has only finite fields
C3_PublishedAttitudeFinite ==
    obs.att_out # << >> => AttitudeFinite(obs.att_out[1])

\* C4: at the end of an iteration the arm hysteresis is true exactly when
\* flag_armed has been true for at least IDLE_BOFORE_TAKEOFF_TIME_US
C4_HysteresisIffArmedLongEnough ==
    obs.kind = "tick"
        => (_arm_hysteresis.state
              <=> (_control_mode.flag_armed
                   /\ now - hist.armed_since >= IDLE_BOFORE_TAKEOFF_TIME_US))

----------------------------------------------------------------------------
(* Properties of smooth takeoff *)

\* C5 as stated: after every update_smooth_takeoff of an activation the ramp is
\* not greater than the desired takeoff speed and not smaller than its previous
\* value
C5_RampBoundedAndMonotone ==
    (obs.kind = "tick" /\ obs.o.in_takeoff_update)
        => /\ ~FGt(_takeoff_speed, obs.o.desired)
           /\ ~FLt(_takeoff_speed, obs.o.ramp_prev)

\* C5 amended: the ramp is never greater than the desired takeoff speed, and it
\* is not smaller than its previous value when the desired speed is not negative
\* and not smaller than that previous value
C5_RampBoundedAndMonotoneWhenDesiredAhead ==
    (obs.kind = "tick" /\ obs.o.in_takeoff_update)
        => /\ ~FGt(_takeoff_speed, obs.o.desired)
           /\ (FLe(0, obs.o.desired) /\ FLe(obs.o.ramp_prev, obs.o.desired))
                 => FLe(obs.o.ramp_prev, _takeoff_speed)

\* a later iteration of an activation on which the ramp has grown
C5_Witness ==
    /\ obs.kind = "tick" /\ obs.o.in_takeoff_update /\ ~obs.o.entered
    /\ obs.before.in_smooth
    /\ FLt(obs.o.ramp_prev, _takeoff_speed)
    /\ FLt(_takeoff_speed, obs.o.desired)

\* C6: smooth takeoff is entered only when landed with the hysteresis true and
\* finite vertical state, and never again while landed has stayed true since the
\* previous entry
C6_EntryOnlyAfterLandedCycle ==
    (obs.kind = "tick" /\ obs.o.entered)
        => /\ _vehicle_land_detected.landed
           /\ _arm_hysteresis.state
           /\ PX4_ISFINITE(_states.position[3])
           /\ PX4_ISFINITE(_states.velocity[3])
           /\ ~obs.reentered

----------------------------------------------------------------------------
(* Properties of the altitude fence *)

\* the setpoint before and after limit_altitude on an iteration that called it
C7_Called == obs.kind = "tick" /\ obs.active /\ PX4_ISFINITE(_states.position[3])

C7_Disabled ==
    \/ _vehicle_land_detected.alt_max < 0
    \/ ~_home_pos.valid_alt
    \/ ~_local_pos.v_z_valid

\* altitude_above_home = -(position.z - home.z)
C7_Altitude == _home_pos.z - _states.position[3]

C7_MustClamp ==
    \/ C7_Altitude > _vehicle_land_detected.alt_max
    \/ /\ obs.o.sp_pre_fence.vz # NaN
       /\ obs.o.sp_pre_fence.vz <= 0
       /\ (0 - obs.o.sp_pre_fence.vz) * _dt
             > (_vehicle_land_detected.alt_max - C7_Altitude) * 1000000

\* C7: limit_altitude leaves the setpoint alone when the fence is disabled,
\* clamps z to the ceiling and vz to 0 when above the ceiling or when a climb would
\* overshoot it within one tick, and leaves the setpoint alone otherwise
C7_LimitAltitude ==
    C7_Called
        => obs.o.setpoint =
              IF ~C7_Disabled /\ C7_MustClamp
              THEN [obs.o.sp_pre_fence EXCEPT
                       !.z = _home_pos.z - _vehicle_land_detected.alt_max,
                       !.vz = 0]
              ELSE obs.o.sp_pre_fence

\* alt_max = 10 m, home.z = 0, position.z = -9.9 m, vz = -2 m/s, dt = 0.1 s
C7_Witness ==
    /\ C7_Called
    /\ _vehicle_land_detected.alt_max = 1000 /\ _home_pos.valid_alt /\ _home_pos.z = 0
    /\ _states.position[3] = 0 - 990 /\ _local_pos.v_z_valid
    /\ obs.o.sp_pre_fence.vz = 0 - 200 /\ _dt = 100000
    /\ obs.o.setpoint.z = 0 - 1000 /\ obs.o.setpoint.vz = 0

\* C8: with the fence enabled the setpoint handed to the PID core has no z above
\* the ceiling and no climb rate that passes the ceiling within the tick
C8_SetpointBelowCeiling ==
    (C7_Called /\ ~C7_Disabled)
        => /\ PX4_ISFINITE(obs.o.setpoint.z)
                => obs.o.setpoint.z >= _home_pos.z - _vehicle_land_detected.alt_max
           /\ (PX4_ISFINITE(obs.o.setpoint.vz) /\ obs.o.setpoint.vz < 0)
                => (0 - obs.o.setpoint.vz) * _dt
                      <= (_vehicle_land_detected.alt_max - C7_Altitude) * 1000000

----------------------------------------------------------------------------
(* Properties of the landing thrust shaper *)

C9_ThrustZeroAndIntegralsReset ==
    /\ obs.o.thr_sp = << 0, 0, 0 >>
    /\ _local_pos_sp.thrust = << 0, 0, 0 >>
    /\ _att_sp.thrust_vec = << 0, 0, 0 >>
    /\ obs.o.reset_xy
    /\ obs.o.reset_z

\* C9 as stated: with an active task and maybe_landed the published thrust is
\* zero and both integrals are reset
C9_MaybeLandedZeroesThrust ==
    (obs.kind = "tick" /\ obs.active /\ _vehicle_land_detected.maybe_landed)
        => C9_ThrustZeroAndIntegralsReset

\* C9 amended: the same, on the iterations that are not in smooth takeoff and
\* whose setpoint has no finite vertical thrust
C9_MaybeLandedZeroesThrustOutsideTakeoff ==
    (/\ obs.kind = "tick" /\ obs.active /\ _vehicle_land_detected.maybe_landed
     /\ ~_in_smooth_takeoff
     /\ ~PX4_ISFINITE(obs.o.setpoint.thrust[3]))
        => C9_ThrustZeroAndIntegralsReset

\* maybe_landed zeroes a thrust the PID core returned
C9_Witness ==
    /\ obs.kind = "tick" /\ obs.active /\ _vehicle_land_detected.maybe_landed
    /\ ~_in_smooth_takeoff /\ obs.o.limit_ran
    /\ obs.o.thr_pid = << 30, 0 - 10, 60 >>
    /\ _local_pos_sp.thrust = << 0, 0, 0 >>

\* C10: with ground_contact and without maybe_landed the shaper zeroes thrust x
\* and y, keeps z, resets only the XY integral; with neither flag it changes nothing
C10_GroundContactShapesXY ==
    (obs.kind = "tick" /\ obs.active /\ obs.o.limit_ran
     /\ ~_vehicle_land_detected.maybe_landed)
        => IF _vehicle_land_detected.ground_contact
           THEN /\ obs.o.thr_sp = << 0, 0, obs.o.thr_pid[3] >>
                /\ obs.o.reset_xy
                /\ ~obs.o.reset_z
           ELSE /\ obs.o.thr_sp = obs.o.thr_pid
                /\ ~obs.o.reset_xy
                /\ ~obs.o.reset_z

\* (0.3, -0.1, 0.6) becomes (0, 0, 0.6)
C10_Witness ==
    /\ obs.kind = "tick" /\ obs.active /\ obs.o.limit_ran
    /\ _vehicle_land_detected.ground_contact /\ ~_vehicle_land_detected.maybe_landed
    /\ obs.o.thr_pid = << 30, 0 - 10, 60 >>
    /\ obs.o.thr_sp = << 0, 0, 60 >>
    /\ obs.o.reset_xy /\ ~obs.o.reset_z

----------------------------------------------------------------------------
(* Properties of the flight-task selector *)

\* C11: an armed iteration ends start_flight_task with a flight task active or
\* with the warning "No Flighttask is running" requested
C11_SelectorTotal ==
    (obs.kind = "tick" /\ obs.armed)
        => (_flight_tasks # "None" \/ obs.warn_requested)

C12_IsPrimary(index) == index \in {"Offboard", "AutoFollowMe", "AutoLine"}

C12_IsFallback(index) == ~C12_IsPrimary(index) /\ index # "None"

\* the fallbacks attempted by the iteration, in order
C12_Fallbacks == SelectSeq(obs.calls, C12_IsFallback)

C12_PrimaryFailed ==
    /\ obs.kind = "tick" /\ obs.armed
    /\ \E i \in 1 .. Len(obs.calls) :
          C12_IsPrimary(obs.calls[i]) /\ obs.calls[i] \in obs.fail

C12_Cascade ==
    << IF params.MPC_POS_MODE = 1 THEN "PositionSmooth"
       ELSE IF params.MPC_POS_MODE = 2 THEN "Sport" ELSE "Position",
       "Altitude", "Stabilized" >>

\* number of cascade steps up to the first one that activates, 3 when none does
C12_Steps ==
    IF C12_Cascade[1] \notin obs.fail THEN 1
    ELSE IF C12_Cascade[2] \notin obs.fail THEN 2 ELSE 3

C12_FirstSuccessWins ==
    /\ C12_Fallbacks = SubSeq(C12_Cascade, 1, C12_Steps)
    /\ _flight_tasks = IF C12_Cascade[C12_Steps] \notin obs.fail
                       THEN C12_Cascade[C12_Steps] ELSE "None"

\* C12 as stated: after a failed primary task the cascade stops at the first
\* fallback that activates, which is the final task; None only if all fail
C12_CascadeStopsAtFirstSuccess == C12_PrimaryFailed => C12_FirstSuccessWins

\* C12 amended: the same when nav_state selects no cascade step itself; the step
\* that nav_state selects is attempted anyway and the last attempt decides
C12_CascadeStopsAtFirstSuccessOrNavStep ==
    C12_PrimaryFailed
        => /\ C12_Fallbacks # << >>
           /\ C12_Fallbacks[1] = C12_Cascade[1]
           /\ _vehicle_status.nav_state \notin {"ALTCTL", "MANUAL", "STAB"}
                 => C12_FirstSuccessWins
           /\ _vehicle_status.nav_state = "ALTCTL"
                 => \E i \in 1 .. Len(C12_Fallbacks) : C12_Fallbacks[i] = "Altitude"
           /\ _vehicle_status.nav_state \in {"MANUAL", "STAB"}
                 => C12_Fallbacks[Len(C12_Fallbacks)] = "Stabilized"
           /\ _flight_tasks =
                 IF C12_Fallbacks[Len(C12_Fallbacks)] \notin obs.fail
                 THEN C12_Fallbacks[Len(C12_Fallbacks)] ELSE "None"

\* OFFBOARD fails, PositionSmooth (MPC_POS_MODE 1) activates
C12_Witness ==
    /\ C12_PrimaryFailed
    /\ _vehicle_status.nav_state = "OFFBOARD"
    /\ params.MPC_POS_MODE = 1
    /\ obs.calls = << "Offboard", "PositionSmooth" >>
    /\ _flight_tasks = "PositionSmooth"

----------------------------------------------------------------------------
(* Properties of the failsafe and of the warnings *)

C13_UpdateFailed == obs.kind = "tick" /\ obs.active /\ ~obs.o.update_ok

C13_FailsafeWarnings == {"Failsafe: Descend with land-speed.",
                         "Failsafe: Descend with just attitude control."}

\* C13: after a failed update of the task every field of the setpoint is NaN,
\* except vz = land_speed and thrust x = y = 0 when the vertical velocity is valid;
\* the PID core still runs and a rate-limited warning is requested
C13_FailsafeSetpoint ==
    C13_UpdateFailed
        => /\ obs.o.sp_task =
                 IF PX4_ISFINITE(obs.before.vz)
                 THEN [x |-> NaN, y |-> NaN, z |-> NaN, vx |-> NaN, vy |-> NaN,
                       vz |-> params._land_speed, thrust |-> << 0, 0, NaN >>,
                       yaw |-> NaN, yawspeed |-> NaN]
                 ELSE [x |-> NaN, y |-> NaN, z |-> NaN, vx |-> NaN, vy |-> NaN,
                       vz |-> NaN, thrust |-> << NaN, NaN, NaN >>,
                       yaw |-> NaN, yawspeed |-> NaN]
           /\ obs.lpsp_published
           /\ now - obs.before.last_warn > 200000
                 => \E i \in 1 .. Len(obs.warns) : obs.warns[i] \in C13_FailsafeWarnings

\* C16: two warnings of the controller are at least 200 ms apart
C16_WarningsSpaced ==
    (obs.kind = "tick" /\ obs.warn_gap # NoGap) => obs.warn_gap >= 200000

----------------------------------------------------------------------------
(* Properties of the command and of the stop of the control task *)

\* an iteration of the loop runs only for a live instance whose exit is not requested
C14_NoTickAfterExitRequest ==
    obs.kind \in {"tick", "poll_error"}
        => /\ ~cmd._task_should_exit
           /\ cmd.g_control = "instance"
           /\ cmd.thread = "running"

\* the task that left the loop has marked its handle
C14_ExitMarksHandle == cmd.thread = "exited" => cmd._control_task = 0 - 1

\* when stop returns the singleton is null and the control task is gone
C14_StopReleases ==
    (cmd.pc = "idle" /\ cmd.last = "stop" /\ cmd.had)
        => /\ cmd.g_control = "null"
           /\ cmd.thread \in {"exited", "deleted"}

C15_Done(name) == cmd.pc = "idle" /\ cmd.last = name

\* C15: at most one instance; start, stop, status and a bad command return 0 or 1
\* as the command line promises
C15_CommandContract ==
    /\ cmd.instances <= 1
    /\ cmd.instances = 1 <=> cmd.g_control = "instance"
    /\ cmd.ret \in {0, 1}
    /\ (C15_Done("start") /\ cmd.had)
          => /\ cmd.ret = 1
             /\ cmd.g_control = "instance" /\ cmd.id = cmd.had_id
             /\ cmd.thread = "running" /\ ~cmd._task_should_exit
    /\ (C15_Done("start") /\ ~cmd.had)
          => \/ /\ cmd.ret = 0
                /\ cmd.g_control = "instance" /\ cmd.id = cmd.had_id + 1
                /\ cmd.thread = "running" /\ cmd._control_task >= 0
             \/ /\ cmd.ret = 1
                /\ cmd.g_control = "null" /\ cmd.thread # "running"
    /\ C15_Done("stop")
          => /\ cmd.ret = IF cmd.had THEN 0 ELSE 1
             /\ cmd.g_control = "null"
    /\ C15_Done("status")
          => /\ cmd.ret = 0 <=> cmd.g_control = "instance"
             /\ cmd.had <=> cmd.g_control = "instance"
    /\ C15_Done("usage")
          => /\ cmd.ret = 1
             /\ cmd.had <=> cmd.g_control = "instance"
             /\ cmd.id = cmd.had_id

\* a second start is refused while the first instance keeps running
C15_Witness ==
    /\ C15_Done("start") /\ cmd.had /\ cmd.ret = 1
    /\ cmd.g_control = "instance" /\ cmd.thread = "running"
    /\ obs.kind = "tick"

----------------------------------------------------------------------------
(* Properties of the end of smooth takeoff, its overrides and its ramp *)

\* smooth takeoff was active in the iteration: before it or entered by it
C17_Active == obs.kind = "tick" /\ (obs.before.in_smooth \/ obs.o.entered)

\* the condition under which the claim lets smooth takeoff end
C17_ClaimedEnd ==
    IF PX4_ISFINITE(obs.o.sp_task.z)
    THEN /\ PX4_ISFINITE(_states.position[3])
         /\ _states.position[3] - 20
               > (IF obs.o.sp_task.z > 0 - params.MPC_LAND_ALT2
                  THEN obs.o.sp_task.z ELSE 0 - params.MPC_LAND_ALT2)
    ELSE /\ PX4_ISFINITE(obs.o.sp_task.vz) /\ PX4_ISFINITE(_takeoff_speed)
         /\ _takeoff_speed < 0 - obs.o.sp_task.vz

\* C17 as stated: smooth takeoff ends exactly when position.z - 0.2 >
\* max(z_sp, -land_alt2), or without z_sp when the ramp < -vz_sp
C17_EndsWhenConditionHolds == C17_Active => (~_in_smooth_takeoff <=> C17_ClaimedEnd)

\* C17 amended: it ends exactly when update_smooth_takeoff runs and that
\* condition does not hold
C17_EndsWhenConditionFails ==
    C17_Active
        => (~_in_smooth_takeoff <=> (obs.o.in_takeoff_update /\ ~C17_ClaimedEnd))

\* the vehicle has reached the height of the setpoint and smooth takeoff ends
C17_Witness ==
    /\ C17_Active /\ obs.before.in_smooth /\ obs.o.in_takeoff_update
    /\ obs.o.sp_task.z = 0 - 200 /\ _states.position[3] = 0 - 190
    /\ ~_in_smooth_takeoff

\* C18: while in smooth takeoff the constraints and the setpoint pushed to the
\* PID core carry the takeoff overrides
C18_TakeoffOverrides ==
    (obs.kind = "tick" /\ obs.active /\ _in_smooth_takeoff)
        => /\ obs.o.constraints.speed_up = _takeoff_speed
           /\ obs.o.setpoint.yaw = NaN /\ obs.o.setpoint.yawspeed = NaN
           /\ obs.o.setpoint.x = NaN /\ obs.o.setpoint.y = NaN
           /\ obs.o.setpoint.vx = 0 /\ obs.o.setpoint.vy = 0

C19_Desired ==
    IF PX4_ISFINITE(obs.o.sp_task.z) THEN params._tko_speed
    ELSE IF PX4_ISFINITE(obs.o.sp_task.vz) THEN 0 - obs.o.sp_task.vz ELSE NaN

\* min(start + desired * dt / takeoff_ramp_time, desired)
C19_Ramp(start) ==
    IF C19_Desired = NaN \/ start = NaN THEN NaN
    ELSE LET next == start + (C19_Desired * _dt) \div (params._takeoff_ramp_time * 1000)
         IN  IF next < C19_Desired THEN next ELSE C19_Desired

\* C19: the ramp of the entering iteration starts from -0.5 and is advanced once,
\* and is what constraints.speed_up gets; later iterations advance the previous value
C19_RampFromEntry ==
    /\ (obs.kind = "tick" /\ obs.o.entered)
          => /\ _takeoff_speed = C19_Ramp(0 - 50)
             /\ _in_smooth_takeoff => obs.o.constraints.speed_up = C19_Ramp(0 - 50)
    /\ (obs.kind = "tick" /\ obs.o.in_takeoff_update /\ ~obs.o.entered)
          => /\ _takeoff_speed = C19_Ramp(obs.before.ramp)
             /\ _in_smooth_takeoff => obs.o.constraints.speed_up = C19_Ramp(obs.before.ramp)

\* takeoff_speed 1.5 m/s, ramp time 3 s, dt 0.02 s: the first ramp value is -0.49
C19_Witness ==
    /\ obs.kind = "tick" /\ obs.o.entered /\ _in_smooth_takeoff
    /\ params._tko_speed = 150 /\ params._takeoff_ramp_time = 3000 /\ _dt = 20000
    /\ PX4_ISFINITE(obs.o.sp_task.z)
    /\ _takeoff_speed = 0 - 49
    /\ obs.o.constraints.speed_up = 0 - 49

----------------------------------------------------------------------------
(* When the landing thrust shaper runs *)

C20_Untouched ==
    obs.o.thr_sp = obs.o.thr_pid /\ ~obs.o.reset_xy /\ ~obs.o.reset_z

\* C20 as stated: the shaper runs unless in smooth takeoff with a vertical thrust
\* setpoint that is not finite
C20_ShaperRunsUnlessTakeoffWithoutThrust ==
    (obs.kind = "tick" /\ obs.active)
        => (obs.o.limit_ran
              <=> ~(_in_smooth_takeoff /\ ~PX4_ISFINITE(obs.o.setpoint.thrust[3])))

\* C20 amended: the shaper runs exactly when not in smooth takeoff and the vertical
\* thrust setpoint is not finite; otherwise the thrust of the PID core is kept
C20_ShaperRunsOutsideTakeoffWithoutThrust ==
    (obs.kind = "tick" /\ obs.active)
        => /\ obs.o.limit_ran
                <=> (~_in_smooth_takeoff /\ ~PX4_ISFINITE(obs.o.setpoint.thrust[3]))
           /\ (_in_smooth_takeoff \/ PX4_ISFINITE(obs.o.setpoint.thrust[3]))
                => C20_Untouched

\* a manual thrust setpoint with maybe_landed: the thrust is left alone
C20_Witness ==
    /\ obs.kind = "tick" /\ obs.active /\ ~_in_smooth_takeoff
    /\ _vehicle_land_detected.maybe_landed
    /\ obs.o.sp_task.thrust = << 0, 0, 0 - 50 >>
    /\ ~obs.o.limit_ran
    /\ _local_pos_sp.thrust = << 0, 0, 0 - 50 >>

----------------------------------------------------------------------------
(* Properties of the landed idle setpoint and of the landing gear *)

\* C21: landed, outside smooth takeoff and without a vertical thrust setpoint the
\* setpoint handed to the PID core is the landed idle one (zero thrust, no position,
\* no velocity, yaw of the vehicle, no yaw speed) and the landing gear is kept
C21_LandedIdleReachesPid ==
    (/\ obs.kind = "tick" /\ obs.active
     /\ _vehicle_land_detected.landed /\ ~_in_smooth_takeoff
     /\ ~PX4_ISFINITE(obs.o.sp_task.thrust[3]))
        => /\ obs.o.setpoint =
                 [x |-> NaN, y |-> NaN, z |-> NaN, vx |-> NaN, vy |-> NaN, vz |-> NaN,
                  thrust |-> << 0, 0, 0 >>, yaw |-> _states.yaw, yawspeed |-> NaN]
           /\ obs.o.constraints.landing_gear = "GEAR_KEEP"

\* C22: a landing gear command Up (Down) of the constraints gives the attitude
\* setpoint of the iteration the landing gear Up (Down)
C22_GearCommandReachesAttitude ==
    (obs.kind = "tick" /\ obs.active /\ ~obs.o.idle)
        => /\ obs.o.constraints.landing_gear = "GEAR_UP"
                => _att_sp.landing_gear = "LANDING_GEAR_UP"
           /\ obs.o.constraints.landing_gear = "GEAR_DOWN"
                => _att_sp.landing_gear = "LANDING_GEAR_DOWN"

----------------------------------------------------------------------------
(* Smooth takeoff across arming epochs *)

\* C23: at the end of an iteration smooth takeoff is active only while the vehicle
\* is armed with the arm hysteresis true, and the first takeoff of an arming epoch
\* is a fresh activation
C23_TakeoffOnlyWhileArmed ==
    obs.kind = "tick"
        => /\ _in_smooth_takeoff
                => (_control_mode.flag_armed /\ _arm_hysteresis.state)
           /\ (obs.o.in_takeoff_update /\ ~obs.before.h) => obs.o.entered

----------------------------------------------------------------------------
(* The flight task and the navigation state *)

\* the flight task that belongs to the navigation state, None when there is none
C24_Mapped ==
    CASE _vehicle_status.nav_state = "OFFBOARD" -> "Offboard"
      [] _vehicle_status.nav_state = "AUTO_FOLLOW_TARGET" -> "AutoFollowMe"
      [] _vehicle_status.nav_state = "POSCTL" -> C12_Cascade[1]
      [] _vehicle_status.nav_state = "ALTCTL" -> "Altitude"
      [] _vehicle_status.nav_state \in {"MANUAL", "STAB"} -> "Stabilized"
      [] OTHER -> IF _control_mode.flag_control_auto_enabled THEN "AutoLine" ELSE "None"

\* start_flight_task ran and no activation failed
C24_NoFailure ==
    /\ obs.kind = "tick" /\ obs.armed /\ ~obs.warn_requested
    /\ \A i \in 1 .. Len(obs.calls) : obs.calls[i] \notin obs.fail

\* C24: after start_flight_task without a failure the active task is the one of
\* the navigation state, and the task of the previous navigation state does not
\* stay active in a navigation state that has no task
C24_TaskFollowsNavState ==
    C24_NoFailure
        => IF C24_Mapped # "None"
           THEN _flight_tasks = C24_Mapped
           ELSE ~(obs.before.task # "None" /\ _flight_tasks = obs.before.task)

\* C25: in OFFBOARD a successful activation of Offboard leaves Offboard active
\* whatever the control mode flags are, and in POSCTL the manual position task is
\* the only task switched to
C25_OffboardAndPosctlAreFinal ==
    (obs.kind = "tick" /\ obs.armed)
        => /\ (_vehicle_status.nav_state = "OFFBOARD" /\ "Offboard" \notin obs.fail)
                => _flight_tasks = "Offboard"
           /\ (_vehicle_status.nav_state = "POSCTL" /\ C12_Cascade[1] \notin obs.fail)
                => obs.calls = << C12_Cascade[1] >>

----------------------------------------------------------------------------
(* The failsafe and the estimator sample of the iteration *)

\* C26: after a failed update of the task the failsafe setpoint descends with the
\* land speed exactly when the vertical velocity of the estimator sample of the
\* same iteration is finite
C26_FailsafeUsesCurrentSample ==
    C13_UpdateFailed
        => (obs.o.sp_task.vz = params._land_speed <=> PX4_ISFINITE(_local_pos.vz))

----------------------------------------------------------------------------
(* The end of smooth takeoff *)

\* the iteration ran update_smooth_takeoff with a velocity setpoint
C27_VelocityTakeoff ==
    /\ obs.kind = "tick" /\ obs.o.in_takeoff_update
    /\ ~PX4_ISFINITE(obs.o.sp_task.z) /\ PX4_ISFINITE(obs.o.sp_task.vz)

\* the iteration ran update_smooth_takeoff with a position setpoint
C27_PositionTakeoff ==
    /\ obs.kind = "tick" /\ obs.o.in_takeoff_update
    /\ PX4_ISFINITE(obs.o.sp_task.z)

\* C27: with a velocity setpoint the ramp grows on every iteration towards -vz_sp
\* and equals -vz_sp when smooth takeoff ends; with a position setpoint smooth
\* takeoff ends only within 0.2 m of the setpoint altitude or of land_alt2 above
\* the origin, and never on the iteration that starts it, the vehicle being on
\* the ground then
C27_TakeoffRunsToAltitude ==
    /\ (C27_VelocityTakeoff /\ ~_in_smooth_takeoff)
          => _takeoff_speed = 0 - obs.o.sp_task.vz
    /\ (C27_VelocityTakeoff /\ _in_smooth_takeoff /\ FGt(obs.o.desired, 0))
          => FLt(obs.o.ramp_prev, _takeoff_speed)
    /\ (C27_PositionTakeoff /\ ~_in_smooth_takeoff)
          => FLe(FSub(_states.position[3], 20),
                 MathMax(obs.o.sp_task.z, FNeg(params.MPC_LAND_ALT2)))
    /\ (C27_PositionTakeoff /\ obs.o.entered) => _in_smooth_takeoff

----------------------------------------------------------------------------
(* Properties of the ms5525_airspeed command *)

\* C28: a start while the driver is started returns an error and leaves the
\* running instance as it is; g_dev is not null exactly between a successful start
\* and the next stop; an unknown command returns an error and leaves g_dev alone
C28_RejectedStartKeepsInstance ==
    /\ (ms5525_airspeed.last = "start" /\ ms5525_airspeed.had # nullptr)
          => /\ ms5525_airspeed.ret # PX4_OK
             /\ ms5525_airspeed.g_dev = ms5525_airspeed.had
    /\ ms5525_airspeed.g_dev # nullptr <=> ms5525_airspeed.started
    /\ ms5525_airspeed.last = "usage"
          => /\ ms5525_airspeed.ret # PX4_OK
             /\ ms5525_airspeed.g_dev = ms5525_airspeed.had

====
